---- MODULE Spec2Model ----
(***************************************************************************)
(* Model of src/app.py: the Flask handlers of the medical appointment      *)
(* backend and the four tables they read and write (patients, doctors,     *)
(* time_slots, appointments).                                              *)
(*                                                                         *)
(* A table is the sequence of its rows in insertion order.  The uuid       *)
(* primary key of a row is modelled by the pair <<table, n>> of the n-th   *)
(* row inserted, so keys are fresh and never collide across tables.        *)
(*                                                                         *)
(* The register and booking handlers read the store, then insert and       *)
(* commit; Flask serves requests on concurrent threads, so these handlers  *)
(* are modelled in two steps (the reads, then the insert and commit) and   *)
(* the locals a request holds between the two steps are kept in req.  The  *)
(* other handlers are one store round trip and are modelled as one step.   *)
(* An exception that escapes a handler (KeyError, IntegrityError) is       *)
(* answered with status 500 and the session is rolled back.                *)
(*                                                                         *)
(* Columns the handlers only copy from the payload (last_name, phone,      *)
(* password_hash, end_time, consultation_notes, ...) are not tracked.      *)
(***************************************************************************)
EXTENDS Integers, Sequences, FiniteSets, TLC

VARIABLES patients, doctors, time_slots, appointments, req, resp

vars == <<patients, doctors, time_slots, appointments, req, resp>>

----------------------------------------------------------------------------
(* Bounds of the model *)

MaxSlots == 1
MaxAppointments == 2

Threads == {1, 2}

Emails == {"a@x", "b@x"}
Names == {"Ann", "Bob"}
Licenses == {"L1", "L2"}
Dates == {1, 2}
Times == {10}
Capacities == {-1, 0, 1}

----------------------------------------------------------------------------
(* Enum and keys *)

PENDING == "PENDING"
CONFIRMED == "CONFIRMED"
COMPLETED == "COMPLETED"
CANCELLED == "CANCELLED"
REJECTED == "REJECTED"

AppointmentStatus == {PENDING, CONFIRMED, COMPLETED, CANCELLED, REJECTED}

NoId == <<"none", 0>>
PatientId(n) == <<"patient", n>>
DoctorId(n) == <<"doctor", n>>
SlotId(n) == <<"slot", n>>
AppointmentId(n) == <<"appointment", n>>

Rows(table) == {table[i] : i \in 1..Len(table)}

(* Model.query.get(id): the row with that primary key, or none *)
Get(table, id) == {r \in Rows(table) : r.id = id}

(* Model.query.filter_by(email=...) *)
ByEmail(table, email) == {r \in Rows(table) : r.email = email}

----------------------------------------------------------------------------
(* Request payloads: JSON objects and query strings, a key may be absent *)

PatientRequired == {"first_name", "email"}
DoctorRequired == {"email", "license_number"}

NoData == [k \in {} |-> 0]

(* What the store held when a request did its reads: the number of rows    *)
(* of the table it inserts into and, for a booking, the capacities of the  *)
(* slots published for its doctor, date and time and the number of         *)
(* appointments not cancelled on them.  No handler reads it; the           *)
(* properties about requests in flight are stated with it.                 *)
NoSnapshot == [len |-> 0, capacity |-> {}, booked |-> 0]

RowCount(table) == [NoSnapshot EXCEPT !.len = Len(table)]

Idle == [pc |-> "idle", op |-> "none", data |-> NoData, seen |-> NoSnapshot]

InFlight(op, data, seen) ==
    [pc |-> "insert", op |-> op, data |-> data, seen |-> seen]

(* the last response sent: the route, the HTTP status, the key of the row  *)
(* the response is about, the request it answers (with what the store      *)
(* held at its reads) and the slots it lists                               *)
Response(op, code, id, data) ==
    [op |-> op, code |-> code, id |-> id, data |-> data, slots |-> {},
     seen |-> NoSnapshot]

Init ==
    /\ patients = <<>>
    /\ doctors = <<>>
    /\ time_slots = <<>>
    /\ appointments = <<>>
    /\ req = [t \in Threads |-> Idle]
    /\ resp = Response("none", 0, NoId, NoData)

----------------------------------------------------------------------------
(* AUTH ROUTES *)

(* unique=True on patients.email: the INSERT is refused when it would      *)
(* duplicate the column                                                    *)
PatientUniqueOk(data) == ByEmail(patients, data.email) = {}

(* unique=True on doctors.email and doctors.license_number *)
DoctorUniqueOk(data) ==
    /\ ByEmail(doctors, data.email) = {}
    /\ {r \in Rows(doctors) : r.license_number = data.license_number} = {}

(* patient_register up to the existence check (lines 180-185) *)
patient_register(t, data) ==
    /\ req[t].pc = "idle"
    /\ IF ~(PatientRequired \subseteq DOMAIN data)
         THEN /\ resp' = Response("patient_register", 400, NoId, NoData)
              /\ UNCHANGED req
         ELSE IF ByEmail(patients, data.email) # {}
         THEN /\ resp' = Response("patient_register", 400, NoId, NoData)
              /\ UNCHANGED req
         ELSE /\ req' = [req EXCEPT ![t] =
                            InFlight("patient_register", data, RowCount(patients))]
              /\ UNCHANGED resp
    /\ UNCHANGED <<patients, doctors, time_slots, appointments>>

(* patient_register from the insert on (lines 187-203) *)
patient_register_commit(t) ==
    /\ req[t].pc = "insert"
    /\ req[t].op = "patient_register"
    /\ LET data == req[t].data IN
       IF PatientUniqueOk(data)
         THEN /\ patients' = Append(patients,
                    [id |-> PatientId(Len(patients) + 1),
                     first_name |-> data.first_name,
                     email |-> data.email])
              /\ resp' = Response("patient_register", 201,
                                  PatientId(Len(patients) + 1), NoData)
         ELSE /\ resp' = Response("patient_register", 500, NoId, NoData)
              /\ UNCHANGED patients
    /\ req' = [req EXCEPT ![t] = Idle]
    /\ UNCHANGED <<doctors, time_slots, appointments>>

(* doctor_register up to the existence check (lines 221-227) *)
doctor_register(t, data) ==
    /\ req[t].pc = "idle"
    /\ IF ~(DoctorRequired \subseteq DOMAIN data)
         THEN /\ resp' = Response("doctor_register", 400, NoId, NoData)
              /\ UNCHANGED req
         ELSE IF ByEmail(doctors, data.email) # {}
         THEN /\ resp' = Response("doctor_register", 400, NoId, NoData)
              /\ UNCHANGED req
         ELSE /\ req' = [req EXCEPT ![t] =
                            InFlight("doctor_register", data, RowCount(doctors))]
              /\ UNCHANGED resp
    /\ UNCHANGED <<patients, doctors, time_slots, appointments>>

(* doctor_register from the insert on (lines 229-248) *)
doctor_register_commit(t) ==
    /\ req[t].pc = "insert"
    /\ req[t].op = "doctor_register"
    /\ LET data == req[t].data IN
       IF DoctorUniqueOk(data)
         THEN /\ doctors' = Append(doctors,
                    [id |-> DoctorId(Len(doctors) + 1),
                     email |-> data.email,
                     license_number |-> data.license_number])
              /\ resp' = Response("doctor_register", 201,
                                  DoctorId(Len(doctors) + 1), NoData)
         ELSE /\ resp' = Response("doctor_register", 500, NoId, NoData)
              /\ UNCHANGED doctors
    /\ req' = [req EXCEPT ![t] = Idle]
    /\ UNCHANGED <<patients, time_slots, appointments>>

----------------------------------------------------------------------------
(* DOCTOR ROUTES *)

(* data.get('capacity', 1) *)
CapacityOf(data) ==
    IF "capacity" \in DOMAIN data THEN data.capacity ELSE 1

(* TimeSlot(...) with the column defaults is_available=True and            *)
(* booked_count=0 (lines 313-319, 122-124)                                 *)
NewTimeSlot(n, doctor_id, data) ==
    [id |-> SlotId(n),
     doctor_id |-> doctor_id,
     date |-> data.date,
     start_time |-> data.start_time,
     is_available |-> TRUE,
     capacity |-> CapacityOf(data),
     booked_count |-> 0]

(* add_time_slots (lines 305-327) *)
add_time_slots(doctor_id, data) ==
    /\ IF Get(doctors, doctor_id) = {}
         THEN /\ resp' = Response("add_time_slots", 404, NoId, NoData)
              /\ UNCHANGED time_slots
         ELSE /\ Len(time_slots) < MaxSlots
              /\ time_slots' = Append(time_slots,
                    NewTimeSlot(Len(time_slots) + 1, doctor_id, data))
              /\ resp' = Response("add_time_slots", 201,
                                  SlotId(Len(time_slots) + 1), NoData)
    /\ UNCHANGED <<patients, doctors, appointments, req>>

(* TimeSlot.query.filter_by(doctor_id=doctor_id, is_available=True),       *)
(* narrowed by filter_by(date=date) when the query string has a date       *)
(* (lines 295-299)                                                         *)
AvailableSlots(doctor_id, args) ==
    {s \in Rows(time_slots) :
        /\ s.doctor_id = doctor_id
        /\ s.is_available = TRUE
        /\ ("date" \in DOMAIN args => s.date = args.date)}

(* get_available_slots (lines 288-303) *)
get_available_slots(doctor_id, args) ==
    /\ IF Get(doctors, doctor_id) = {}
         THEN resp' = Response("get_available_slots", 404, doctor_id, args)
         ELSE resp' = [Response("get_available_slots", 200, doctor_id, args)
                         EXCEPT !.slots =
                            {s.id : s \in AvailableSlots(doctor_id, args)}]
    /\ UNCHANGED <<patients, doctors, time_slots, appointments, req>>

----------------------------------------------------------------------------
(* APPOINTMENT ROUTES *)

(* the rows a booking for this doctor, date and time is made against *)
SlotsFor(data) ==
    {s \in Rows(time_slots) :
        /\ s.doctor_id = data.doctor_id
        /\ s.date = data.appointment_date
        /\ s.start_time = data.appointment_time}

AppointmentsFor(data) ==
    {a \in Rows(appointments) :
        /\ a.doctor_id = data.doctor_id
        /\ a.appointment_date = data.appointment_date
        /\ a.appointment_time = data.appointment_time
        /\ a.status # CANCELLED}

Snapshot(data) ==
    [len |-> Len(appointments),
     capacity |-> {s.capacity : s \in SlotsFor(data)},
     booked |-> Cardinality(AppointmentsFor(data))]

BookingsInFlight ==
    Cardinality({t \in Threads : req[t].op = "book_appointment"})

(* Appointment(...) with the column default status=PENDING                 *)
(* (lines 345-351, 144)                                                    *)
NewAppointment(n, data) ==
    [id |-> AppointmentId(n),
     patient_id |-> data.patient_id,
     doctor_id |-> data.doctor_id,
     appointment_date |-> data.appointment_date,
     appointment_time |-> data.appointment_time,
     status |-> PENDING]

(* the existence check with "and" for "or" *)
NotFoundBoth(data) ==
    Get(patients, data.patient_id) = {} /\ Get(doctors, data.doctor_id) = {}

(* not patient or not doctor (lines 339-342) *)
NotFound(data) ==
    Get(patients, data.patient_id) = {} \/ Get(doctors, data.doctor_id) = {}

(* book_appointment up to the existence check (lines 336-343); patient_id  *)
(* is the identity of the caller's token                                   *)
book_appointment(t, data) ==
    /\ req[t].pc = "idle"
    /\ IF NotFound(data)
         THEN /\ resp' = Response("book_appointment", 404, NoId, data)
              /\ UNCHANGED req
         ELSE /\ Len(appointments) + BookingsInFlight < MaxAppointments
              /\ req' = [req EXCEPT ![t] =
                            InFlight("book_appointment", data, Snapshot(data))]
              /\ UNCHANGED resp
    /\ UNCHANGED <<patients, doctors, time_slots, appointments>>

(* a booking that counts itself on the slots of its doctor, date and time *)
SlotsAfterBookingReserve(data) ==
    [i \in 1..Len(time_slots) |->
        IF time_slots[i] \in SlotsFor(data)
          THEN [time_slots[i] EXCEPT !.booked_count = @ + 1]
          ELSE time_slots[i]]

(* what the insert and commit of book_appointment write to time_slots:     *)
(* no statement of the handler touches a TimeSlot (lines 345-354)          *)
SlotsAfterBooking(data) == time_slots

(* book_appointment from the insert on (lines 345-359) *)
book_appointment_commit(t) ==
    /\ req[t].pc = "insert"
    /\ req[t].op = "book_appointment"
    /\ appointments' = Append(appointments,
            NewAppointment(Len(appointments) + 1, req[t].data))
    /\ time_slots' = SlotsAfterBooking(req[t].data)
    /\ resp' = [Response("book_appointment", 201,
                         AppointmentId(Len(appointments) + 1), req[t].data)
                    EXCEPT !.seen = req[t].seen]
    /\ req' = [req EXCEPT ![t] = Idle]
    /\ UNCHANGED <<patients, doctors>>

(* the appointments table after the handler's assignment to status *)
SetStatus(appointment_id, status) ==
    [i \in 1..Len(appointments) |->
        IF appointments[i].id = appointment_id
          THEN [appointments[i] EXCEPT !.status = status]
          ELSE appointments[i]]

(* cancel_appointment (lines 382-397) *)
cancel_appointment(appointment_id) ==
    /\ IF Get(appointments, appointment_id) = {}
         THEN /\ resp' = Response("cancel_appointment", 404, appointment_id, NoData)
              /\ UNCHANGED appointments
         ELSE /\ appointments' = SetStatus(appointment_id, CANCELLED)
              /\ resp' = Response("cancel_appointment", 200, appointment_id, NoData)
    /\ UNCHANGED <<patients, doctors, time_slots, req>>

(* confirm_appointment (lines 399-412) *)
confirm_appointment(appointment_id) ==
    /\ IF Get(appointments, appointment_id) = {}
         THEN /\ resp' = Response("confirm_appointment", 404, appointment_id, NoData)
              /\ UNCHANGED appointments
         ELSE /\ appointments' = SetStatus(appointment_id, CONFIRMED)
              /\ resp' = Response("confirm_appointment", 200, appointment_id, NoData)
    /\ UNCHANGED <<patients, doctors, time_slots, req>>

----------------------------------------------------------------------------
(* Registration: any two requests of a role, any payloads *)

PatientPayloads ==
    [first_name : Names, email : Emails] \cup [first_name : Names]

DoctorPayloads ==
    [email : Emails, license_number : Licenses] \cup [email : Emails]

NextIdentity ==
    \E t \in Threads :
        \/ \E data \in PatientPayloads : patient_register(t, data)
        \/ patient_register_commit(t)
        \/ \E data \in DoctorPayloads : doctor_register(t, data)
        \/ doctor_register_commit(t)

SpecIdentity == Init /\ [][NextIdentity]_vars

----------------------------------------------------------------------------
(* The accounts of the appointment specification: one patient and two     *)
(* doctors may register.  A token may carry the key of the patient, of a   *)
(* patient that never registered, or of a doctor.                          *)

OnePatient == {[first_name |-> "Ann", email |-> "a@x"]}

TwoDoctors ==
    {[email |-> "a@x", license_number |-> "L1"],
     [email |-> "b@x", license_number |-> "L2"]}

CallerIds == {PatientId(1), PatientId(2), DoctorId(1)}
DoctorIds == {DoctorId(1), DoctorId(2), DoctorId(3)}
AppointmentIds == {AppointmentId(n) : n \in 1..(MaxAppointments + 1)}

(* The appointment lifecycle: book, confirm, cancel *)

LifecyclePayloads ==
    [patient_id : CallerIds, doctor_id : DoctorIds,
     appointment_date : {1}, appointment_time : Times]

NextLifecycle ==
    \/ \E t \in Threads :
        \/ \E data \in OnePatient : patient_register(t, data)
        \/ patient_register_commit(t)
        \/ \E data \in TwoDoctors : doctor_register(t, data)
        \/ doctor_register_commit(t)
        \/ \E data \in LifecyclePayloads : book_appointment(t, data)
        \/ book_appointment_commit(t)
    \/ \E appointment_id \in AppointmentIds :
        \/ cancel_appointment(appointment_id)
        \/ confirm_appointment(appointment_id)

SpecLifecycle == Init /\ [][NextLifecycle]_vars

(* The slot ledger: one patient and one doctor may register; slots are    *)
(* published on either date and listed, appointments are booked on the     *)
(* first date (with or without a slot published for it) and cancelled.     *)

OneDoctor == {[email |-> "a@x", license_number |-> "L1"]}

LedgerDoctorIds == {DoctorId(1), DoctorId(2)}

SlotPayloads ==
    [date : Dates, start_time : Times, capacity : Capacities]
        \cup [date : Dates, start_time : Times]

QueryArgs == [date : Dates] \cup {NoData}

LedgerPayloads ==
    [patient_id : {PatientId(1), PatientId(2)}, doctor_id : LedgerDoctorIds,
     appointment_date : {1}, appointment_time : Times]

NextLedger ==
    \/ \E t \in Threads :
        \/ \E data \in OnePatient : patient_register(t, data)
        \/ patient_register_commit(t)
        \/ \E data \in OneDoctor : doctor_register(t, data)
        \/ doctor_register_commit(t)
        \/ \E data \in LedgerPayloads : book_appointment(t, data)
        \/ book_appointment_commit(t)
    \/ \E doctor_id \in LedgerDoctorIds :
        \/ \E data \in SlotPayloads : add_time_slots(doctor_id, data)
        \/ \E args \in QueryArgs : get_available_slots(doctor_id, args)
    \/ \E appointment_id \in AppointmentIds :
        cancel_appointment(appointment_id)

SpecLedger == Init /\ [][NextLedger]_vars

----------------------------------------------------------------------------
(* Steps of a request, for the properties below *)

(* thread t passes the existence check of route op and goes on to insert *)
Admits(t, op) ==
    /\ req[t].pc = "idle"
    /\ req'[t].pc = "insert"
    /\ req'[t].op = op

(* thread t runs the insert and commit of route op and responds *)
Commits(t, op) ==
    /\ req[t].pc = "insert"
    /\ req[t].op = op
    /\ req'[t].pc = "idle"

(* a response of route op is sent *)
Answers(op) ==
    /\ resp' # resp
    /\ resp'.op = op

(* the appointments not cancelled on the doctor, date and time of a slot *)
BookedOn(s) ==
    {a \in Rows(appointments) :
        /\ a.doctor_id = s.doctor_id
        /\ a.appointment_date = s.date
        /\ a.appointment_time = s.start_time
        /\ a.status # CANCELLED}

Terminal == {CANCELLED, COMPLETED, REJECTED}

Edges ==
    {<<PENDING, CONFIRMED>>, <<PENDING, CANCELLED>>, <<CONFIRMED, CANCELLED>>}

----------------------------------------------------------------------------
(* C1: once an appointment's status is CANCELLED, COMPLETED or REJECTED,   *)
(* no later confirm or cancel request changes it.                          *)
C1_TerminalStatusIsKept ==
    [][\A i \in 1..Len(appointments) :
          appointments[i].status \in Terminal
            => appointments'[i].status = appointments[i].status]_vars

(* C2: every status change follows an edge of the state machine (PENDING   *)
(* to CONFIRMED by confirm; PENDING or CONFIRMED to CANCELLED by cancel),  *)
(* and confirm or cancel on an existing appointment in any other status    *)
(* does not succeed and leaves the status unchanged.                       *)
C2_TransitionsFollowTheStateMachine ==
    [][\A i \in 1..Len(appointments) :
          LET a == appointments[i]
              b == appointments'[i]
          IN  /\ a.status # b.status => <<a.status, b.status>> \in Edges
              /\ (/\ Answers("confirm_appointment")
                  /\ resp'.id = a.id
                  /\ a.status # PENDING)
                    => (resp'.code # 200 /\ b.status = a.status)
              /\ (/\ Answers("cancel_appointment")
                  /\ resp'.id = a.id
                  /\ a.status \notin {PENDING, CONFIRMED})
                    => (resp'.code # 200 /\ b.status = a.status)]_vars

(* C3: every stored slot has 0 <= booked_count <= capacity, whatever       *)
(* capacity the add-slots payloads carried.                                *)
C3_BookedCountWithinCapacity ==
    \A s \in Rows(time_slots) :
        0 <= s.booked_count /\ s.booked_count <= s.capacity

(* C4: a booking for a doctor, date and time whose published slot (of      *)
(* capacity 1 or more) already had as many appointments as its capacity    *)
(* when the request arrived is refused with SlotFull (409), adds no        *)
(* appointment and leaves the slots as they are.                           *)
C4_FullSlotRefusesBooking ==
    [][\A t \in Threads :
          (/\ Commits(t, "book_appointment")
           /\ \E c \in req[t].seen.capacity :
                 c >= 1 /\ req[t].seen.booked >= c)
            => (/\ resp'.code = 409
                /\ appointments' = appointments
                /\ time_slots' = time_slots)]_vars

(* C5: of two bookings in flight together against a slot of capacity 1     *)
(* with nothing booked, exactly one succeeds: when one of them has been    *)
(* answered 201, the other, which did its reads before that insert and     *)
(* saw the same free slot, is refused with SlotFull (409) and adds no      *)
(* appointment.                                                            *)
C5_OneOfTwoConcurrentBookingsWins ==
    [][\A t \in Threads :
          (/\ Commits(t, "book_appointment")
           /\ req[t].seen.capacity = {1}
           /\ req[t].seen.booked = 0
           /\ resp.op = "book_appointment"
           /\ resp.code = 201
           /\ resp.seen.capacity = {1}
           /\ resp.seen.booked = 0
           /\ resp.data.doctor_id = req[t].data.doctor_id
           /\ resp.data.appointment_date = req[t].data.appointment_date
           /\ resp.data.appointment_time = req[t].data.appointment_time
           /\ resp.id[2] > req[t].seen.len
           /\ \E a \in AppointmentsFor(req[t].data) : a.id = resp.id)
            => (/\ resp'.code = 409
                /\ appointments' = appointments)]_vars

(* C6: of two registrations of one role with the same email, run in        *)
(* sequence or with their checks and inserts interleaved, the one that     *)
(* finds the email taken when it inserts is answered 400                   *)
(* (DuplicateIdentity) and the table keeps the one record of the other.    *)
C6_SameEmailRegistrationGets400 ==
    [][\A t \in Threads :
          /\ (/\ Commits(t, "patient_register")
              /\ ByEmail(patients, req[t].data.email) # {})
               => (resp'.code = 400 /\ patients' = patients)
          /\ (/\ Commits(t, "doctor_register")
              /\ ByEmail(doctors, req[t].data.email) # {})
               => (resp'.code = 400 /\ doctors' = doctors)]_vars

(* C7: a doctor registration whose license_number is that of a doctor      *)
(* registered before the request, with an email no doctor has, is          *)
(* answered 400 (DuplicateIdentity) and the doctors table is unchanged.    *)
C7_DuplicateLicenseGets400 ==
    [][\A t \in Threads :
          (/\ Commits(t, "doctor_register")
           /\ ByEmail(doctors, req[t].data.email) = {}
           /\ \E i \in 1..req[t].seen.len :
                 /\ doctors[i].license_number = req[t].data.license_number
                 /\ doctors[i].email # req[t].data.email)
            => (resp'.code = 400 /\ doctors' = doctors)]_vars

C9_ListedIffBookedBelowCapacity ==
    (resp.op = "get_available_slots" /\ resp.code = 200)
      => /\ \A s \in Rows(time_slots) :
              s.capacity >= 0
                => (s.id \in resp.slots
                      <=> /\ s.doctor_id = resp.id
                          /\ ("date" \in DOMAIN resp.data
                                => s.date = resp.data.date)
                          /\ s.booked_count < s.capacity)
         /\ \A s \in Rows(time_slots) :
              (s.capacity >= 1 /\ Cardinality(BookedOn(s)) >= s.capacity)
                => s.id \notin resp.slots

(* C10: a booking never reads or writes the slot ledger: it leaves every   *)
(* TimeSlot row unchanged, it is refused only when the patient or the      *)
(* doctor is not stored, and once admitted it always adds its              *)
(* appointment, however many appointments the slot already has.            *)
C10_BookingIgnoresTheSlotLedger ==
    [][/\ \A t \in Threads :
            Admits(t, "book_appointment") => time_slots' = time_slots
       /\ \A t \in Threads :
            Commits(t, "book_appointment")
              => (/\ time_slots' = time_slots
                  /\ resp'.code = 201
                  /\ Len(appointments') = Len(appointments) + 1)
       /\ (Answers("book_appointment") /\ resp'.code # 201)
              => (/\ time_slots' = time_slots
                  /\ \/ \A p \in Rows(patients) : p.id # resp'.data.patient_id
                     \/ \A d \in Rows(doctors) : d.id # resp'.data.doctor_id)]_vars

(* a slot of capacity 1, still marked available with booked_count 0, has   *)
(* more appointments not cancelled than its capacity                       *)
C10_Witness ==
    \E s \in Rows(time_slots) :
        /\ s.capacity = 1
        /\ s.booked_count = 0
        /\ s.is_available
        /\ Cardinality(BookedOn(s)) > s.capacity
        /\ resp.op = "book_appointment"
        /\ resp.code = 201

====
